---- MODULE Spec2Model ----
(***************************************************************************)
(* DictTuple (src/DictTuple.py): an ordered list of dictionaries read as   *)
(* one mapping.  Dictionaries are Python objects held by reference, so the *)
(* model keeps a heap of dictionary objects and, for every DictTuple       *)
(* instance, the list `dt` of references into that heap.                   *)
(***************************************************************************)
EXTENDS Integers, Sequences, FiniteSets, TLC

\* ------------------------------------------------------------------ bounds
\* Dictionary objects that may exist (caller-made and made by __setitem__).
MaxDicts == 2
\* DictTuple instances that may exist.
MaxInst == 2
\* Longest layer list a constructor call or a concatenation may make
\* (__setitem__ appends beyond it, one new dictionary each time).
MaxLayers == 2
\* Most arguments of one constructor call made by the caller.
MaxArgs == 2

\* Keys (orderable) and values stored in the dictionaries.
Keys == {1, 2}
Vals == {1, 2}

\* ------------------------------------------------------------------ state
VARIABLES
    heap,   \* heap[id]: the contents of dictionary object id (a function key -> value)
    dt,     \* dt[i]: self.dt of DictTuple instance i, a sequence of dictionary ids
    last    \* the last call made: operation, operands, result, exception

vars == <<heap, dt, last>>

\* The contents a dictionary can have.
Dict == UNION {[ks -> Vals] : ks \in SUBSET Keys}

EmptyDict == [k \in {} |-> 0]

DictIds == 1..Len(heap)
Insts == 1..Len(dt)

\* A Python value handed to the constructor or to + : a reference to a
\* dictionary, a reference to a DictTuple, or a value of another type that is
\* truthy (5, "x") or falsy (None, 0, []).
DictRef(id) == [kind |-> "dict", ref |-> id]
TupleRef(i) == [kind |-> "DictTuple", ref |-> i]
TruthyOther == [kind |-> "truthy", ref |-> 0]
FalsyOther == [kind |-> "falsy", ref |-> 0]

\* The operands the caller gives to == and +.
Operands ==
    {DictRef(id) : id \in DictIds} \cup {TupleRef(i) : i \in Insts} \cup {TruthyOther}

\* The values the caller hands to the constructor.
CtorValues == {DictRef(id) : id \in DictIds} \cup {TruthyOther, FalsyOther}

SeqUpTo(S, n) == UNION {[1..m -> S] : m \in 0..n}

\* No exception / the record of a call.
NoErr == "none"

Call(op, self, other, key, val, args, res, err) ==
    [op |-> op, self |-> self, other |-> other, key |-> key, val |-> val,
     args |-> args, res |-> res, err |-> err]

NoRef == [kind |-> "none", ref |-> 0]

\* ------------------------------------------------------------ dictionaries
HasKey(d, key) == key \in DOMAIN d

DictSet(d, key, value) == [k \in (DOMAIN d) \cup {key} |-> IF k = key THEN value ELSE d[k]]

DictDel(d, key) == [k \in (DOMAIN d) \ {key} |-> d[k]]

\* ------------------------------------------------------------ __bool__
\* Variant: true when there is any dictionary (len(self.dt) > 0).
boolNonEmpty(layers) == Len(layers) > 0

\* DictTuple.__bool__: more than one dictionary.
bool(layers) == Len(layers) > 1

\* Python truth value of a value: a dictionary is true when non-empty, a
\* DictTuple by its __bool__.
Truthy(h, tuples, arg) ==
    CASE arg.kind = "dict" -> DOMAIN h[arg.ref] # {}
      [] arg.kind = "DictTuple" -> bool(tuples[arg.ref])
      [] arg.kind = "truthy" -> TRUE
      [] OTHER -> FALSE

\* ------------------------------------------------------------ __init__
\* Variant: empty dictionaries are not filtered out.
initNoFilter(h, tuples, args) ==
    IF Len(args) = 0
    THEN [err |-> "AssertionError", dt |-> <<>>]
    ELSE IF \E i \in 1..Len(args) : args[i].kind # "dict"
         THEN [err |-> "AssertionError", dt |-> <<>>]
         ELSE [err |-> NoErr, dt |-> [i \in 1..Len(args) |-> args[i].ref]]

\* DictTuple.__init__(*args): the outcome, [err, dt].
init(h, tuples, args) ==
    IF Len(args) = 0
    THEN [err |-> "AssertionError", dt |-> <<>>]
    ELSE LET kept == SelectSeq(args, LAMBDA a : Truthy(h, tuples, a))
         IN  IF Len(kept) = 0
             THEN [err |-> "AssertionError", dt |-> <<>>]
             ELSE IF \E i \in 1..Len(kept) : kept[i].kind # "dict"
                  THEN [err |-> "AssertionError", dt |-> <<>>]
                  ELSE [err |-> NoErr, dt |-> [i \in 1..Len(kept) |-> kept[i].ref]]

\* ------------------------------------------------------------ __contains__
\* Variant: only the latest dictionary is asked (key in self.dt[-1]).
containsLatest(h, layers, key) == HasKey(h[layers[Len(layers)]], key)

\* any(key in d for d in self.dt)
contains(h, layers, key) == \E i \in 1..Len(layers) : HasKey(h[layers[i]], key)

\* ------------------------------------------------------------ __getitem__
\* for d in reversed(self.dt): the position of the first dictionary, from
\* position i downwards, that holds key; 0 when the loop runs out.
\* Variant: the scan runs oldest to latest (reversed() forgotten).
ScanForward(h, layers, key, i) ==
    LET owners == {j \in 1..i : HasKey(h[layers[j]], key)}
    IN  IF owners = {} THEN 0 ELSE CHOOSE j \in owners : \A j2 \in owners : j <= j2

RECURSIVE ScanReversed(_, _, _, _)
ScanReversed(h, layers, key, i) ==
    IF i = 0 THEN 0
    ELSE IF HasKey(h[layers[i]], key) THEN i
         ELSE ScanReversed(h, layers, key, i - 1)

\* DictTuple.__getitem__(key): [err, val]
getitem(h, layers, key) ==
    LET i == ScanReversed(h, layers, key, Len(layers))
    IN  IF i = 0
        THEN [err |-> "KeyError", val |-> 0]
        ELSE [err |-> NoErr, val |-> h[layers[i]][key]]

\* ------------------------------------------------------------ __setitem__
\* Variant: an existing key is overwritten in every dictionary that holds it.
setitemEverywhere(h, layers, key, value) ==
    LET owners == {layers[j] : j \in {j \in 1..Len(layers) : HasKey(h[layers[j]], key)}}
    IN  IF owners # {}
        THEN [heap |-> [id \in DOMAIN h |->
                           IF id \in owners THEN DictSet(h[id], key, value) ELSE h[id]],
              dt |-> layers, found |-> TRUE]
        ELSE [heap |-> Append(h, DictSet(EmptyDict, key, value)),
              dt |-> Append(layers, Len(h) + 1), found |-> FALSE]

\* Variant: a key no dictionary holds is written into the latest dictionary
\* instead of a new one.
setitemIntoLast(h, layers, key, value) ==
    LET i == ScanReversed(h, layers, key, Len(layers))
        j == IF i # 0 THEN i ELSE Len(layers)
    IN  [heap |-> [h EXCEPT ![layers[j]] = DictSet(@, key, value)],
         dt |-> layers, found |-> i # 0]

\* DictTuple.__setitem__(key, value): the heap and the layer list afterwards;
\* found: the loop returned (a dictionary held key), nothing was appended.
setitem(h, layers, key, value) ==
    LET i == ScanReversed(h, layers, key, Len(layers))
    IN  IF i # 0
        THEN [heap |-> [h EXCEPT ![layers[i]] = DictSet(@, key, value)],
              dt |-> layers, found |-> TRUE]
        ELSE [heap |-> Append(h, DictSet(EmptyDict, key, value)),
              dt |-> Append(layers, Len(h) + 1), found |-> FALSE]

\* ------------------------------------------------------------ __delitem__
\* for d in self.dt: if key in d: del d[key]; found = True -- from position i on.
\* Variant: only the latest dictionary holding key loses it.
DelLatestOnly(h, layers, key, i, found) ==
    LET owners == {j \in i..Len(layers) : HasKey(h[layers[j]], key)}
    IN  IF owners = {}
        THEN [heap |-> h, found |-> found]
        ELSE LET j == CHOOSE j \in owners : \A j2 \in owners : j2 <= j
             IN  [heap |-> [h EXCEPT ![layers[j]] = DictDel(@, key)], found |-> TRUE]

\* Variant: found is overwritten by every iteration (found = key in d).
RECURSIVE DelLoopFoundLast(_, _, _, _, _)
DelLoopFoundLast(h, layers, key, i, found) ==
    IF i > Len(layers) THEN [heap |-> h, found |-> found]
    ELSE IF HasKey(h[layers[i]], key)
         THEN DelLoopFoundLast([h EXCEPT ![layers[i]] = DictDel(@, key)],
                               layers, key, i + 1, TRUE)
         ELSE DelLoopFoundLast(h, layers, key, i + 1, FALSE)

RECURSIVE DelLoop(_, _, _, _, _)
DelLoop(h, layers, key, i, found) ==
    IF i > Len(layers) THEN [heap |-> h, found |-> found]
    ELSE IF HasKey(h[layers[i]], key)
         THEN DelLoop([h EXCEPT ![layers[i]] = DictDel(@, key)], layers, key, i + 1, TRUE)
         ELSE DelLoop(h, layers, key, i + 1, found)

\* DictTuple.__delitem__(key): [err, heap]
delitem(h, layers, key) ==
    LET r == DelLoop(h, layers, key, 1, FALSE)
    IN  IF r.found
        THEN [err |-> NoErr, heap |-> r.heap]
        ELSE [err |-> "KeyError", heap |-> r.heap]

\* ------------------------------------------------------------ __call__
\* [d[key] for d in self.dt if key in d] -- from position i on.
\* Variant: the values latest first (the comprehension over reversed(self.dt)).
RECURSIVE CallReversed(_, _, _, _)
CallReversed(h, layers, key, i) ==
    IF i > Len(layers) THEN <<>>
    ELSE IF HasKey(h[layers[i]], key)
         THEN CallReversed(h, layers, key, i + 1) \o <<h[layers[i]][key]>>
         ELSE CallReversed(h, layers, key, i + 1)

RECURSIVE CallFrom(_, _, _, _)
CallFrom(h, layers, key, i) ==
    IF i > Len(layers) THEN <<>>
    ELSE IF HasKey(h[layers[i]], key)
         THEN <<h[layers[i]][key]>> \o CallFrom(h, layers, key, i + 1)
         ELSE CallFrom(h, layers, key, i + 1)

call(h, layers, key) == CallFrom(h, layers, key, 1)

\* ------------------------------------------------------------ __eq__
\* all_keys: the keys of every dictionary of a layer list.
AllKeys(h, layers) == UNION {DOMAIN h[layers[i]] : i \in 1..Len(layers)}

\* Variant: the two key sets must be the same.
eqDictSameKeys(h, layers, m) ==
    LET all_keys == AllKeys(h, layers)
    IN  IF all_keys # DOMAIN m
        THEN FALSE
        ELSE \A key \in all_keys :
                 LET mine == getitem(h, layers, key)
                 IN  mine.err = NoErr /\ mine.val = m[key]

\* DictTuple.__eq__(other), other a dictionary with contents m.
eqDict(h, layers, m) ==
    LET all_keys == AllKeys(h, layers)
    IN  IF ~(all_keys \subseteq DOMAIN m)
        THEN FALSE
        ELSE \A key \in all_keys :
                 LET mine == getitem(h, layers, key)
                 IN  /\ mine.err = NoErr
                     /\ HasKey(m, key)
                     /\ ~(mine.val # m[key])

\* Variant: only the keys of self are compared (as in the dict branch).
eqTupleSelfKeys(h, layers, others) ==
    LET all_keys == AllKeys(h, layers)
    IN  \A key \in all_keys :
            LET mine == getitem(h, layers, key)
                theirs == getitem(h, others, key)
            IN  /\ mine.err = NoErr
                /\ theirs.err = NoErr
                /\ ~(mine.val # theirs.val)

\* DictTuple.__eq__(other), other a DictTuple with layer list others.
eqTuple(h, layers, others) ==
    LET all_keys == AllKeys(h, layers) \cup AllKeys(h, others)
    IN  \A key \in all_keys :
            LET mine == getitem(h, layers, key)
                theirs == getitem(h, others, key)
            IN  /\ mine.err = NoErr
                /\ theirs.err = NoErr
                /\ ~(mine.val # theirs.val)

\* DictTuple.__eq__(other)
eq(h, tuples, layers, other) ==
    CASE other.kind = "dict" -> eqDict(h, layers, h[other.ref])
      [] other.kind = "DictTuple" -> eqTuple(h, layers, tuples[other.ref])
      [] OTHER -> FALSE

\* ------------------------------------------------------------ __add__
Refs(layers) == [i \in 1..Len(layers) |-> DictRef(layers[i])]

\* Variant: the other operand's dictionaries come first.
addOtherFirst(h, tuples, layers, other) ==
    CASE other.kind = "dict" ->
            IF DOMAIN h[other.ref] = {}
            THEN [err |-> NoErr, same |-> TRUE, dt |-> layers]
            ELSE LET r == init(h, tuples, <<other>> \o Refs(layers))
                 IN  [err |-> r.err, same |-> FALSE, dt |-> r.dt]
      [] other.kind = "DictTuple" ->
            LET r == init(h, tuples, Refs(tuples[other.ref]) \o Refs(layers))
            IN  [err |-> r.err, same |-> FALSE, dt |-> r.dt]
      [] OTHER -> [err |-> "TypeError", same |-> FALSE, dt |-> <<>>]

\* DictTuple.__add__(other): [err, same, dt]; same: the result is self itself.
add(h, tuples, layers, other) ==
    CASE other.kind = "dict" ->
            IF DOMAIN h[other.ref] = {}
            THEN [err |-> NoErr, same |-> TRUE, dt |-> layers]
            ELSE LET r == init(h, tuples, Append(Refs(layers), other))
                 IN  [err |-> r.err, same |-> FALSE, dt |-> r.dt]
      [] other.kind = "DictTuple" ->
            LET combined_dicts == Refs(layers) \o Refs(tuples[other.ref])
                r == init(h, tuples, combined_dicts)
            IN  [err |-> r.err, same |-> FALSE, dt |-> r.dt]
      [] OTHER -> [err |-> "TypeError", same |-> FALSE, dt |-> <<>>]

\* DictTuple.__radd__(other)
radd(h, tuples, layers, other) ==
    CASE other.kind = "dict" ->
            IF DOMAIN h[other.ref] = {}
            THEN [err |-> NoErr, same |-> TRUE, dt |-> layers]
            ELSE LET r == init(h, tuples, <<other>> \o Refs(layers))
                 IN  [err |-> r.err, same |-> FALSE, dt |-> r.dt]
      [] other.kind = "DictTuple" ->
            LET combined_dicts == Refs(tuples[other.ref]) \o Refs(layers)
                r == init(h, tuples, combined_dicts)
            IN  [err |-> r.err, same |-> FALSE, dt |-> r.dt]
      [] OTHER -> [err |-> "TypeError", same |-> FALSE, dt |-> <<>>]

\* ------------------------------------------------------------ __len__
\* DictTuple.__len__: the number of distinct keys.
len(h, layers) == Cardinality(AllKeys(h, layers))

\* ------------------------------------------------------------ __iter__
\* latest_index: for every key the index (from 0) the loop over
\* reversed(self.dt) wrote last, that of the oldest dictionary holding it.
LatestIndex(h, layers) ==
    [key \in AllKeys(h, layers) |->
        (CHOOSE j \in 1..Len(layers) :
            /\ HasKey(h[layers[j]], key)
            /\ \A j2 \in 1..Len(layers) : HasKey(h[layers[j2]], key) => j <= j2) - 1]

\* sorted(keys)
RECURSIVE Sorted(_)
Sorted(keys) ==
    IF keys = {} THEN <<>>
    ELSE LET least == CHOOSE k \in keys : \A k2 \in keys : k <= k2
         IN  <<least>> \o Sorted(keys \ {least})

\* The keys in the order latest_index got them: latest dictionary first.
RECURSIVE InsertionOrder(_, _, _)
InsertionOrder(h, layers, seen) ==
    IF layers = <<>> THEN <<>>
    ELSE LET d == h[layers[Len(layers)]]
         IN  Sorted(DOMAIN d \ seen)
                 \o InsertionOrder(h, SubSeq(layers, 1, Len(layers) - 1), seen \cup DOMAIN d)

\* Variant: the keys unsorted (iter(latest_index)).
iterUnsorted(h, layers) == InsertionOrder(h, layers, {})

\* DictTuple.__iter__: the keys the iterator yields, in order.
iter(h, layers) == Sorted(DOMAIN LatestIndex(h, layers))

\* ------------------------------------------------------------------ Init
Init ==
    /\ heap = <<>>
    /\ dt = <<>>
    /\ last = Call("start", 0, NoRef, 0, 0, <<>>, 0, NoErr)

\* The caller makes a plain dictionary (a literal such as {} or {'a': 1}).
NewDict ==
    /\ Len(heap) < MaxDicts
    /\ \E d \in Dict :
        /\ heap' = Append(heap, d)
        /\ last' = Call("dict", 0, NoRef, 0, 0, <<>>, Len(heap) + 1, NoErr)
    /\ UNCHANGED dt

\* DictTuple(*args)
Construct ==
    \E args \in SeqUpTo(CtorValues, MaxArgs) :
        LET r == init(heap, dt, args)
        IN  /\ IF r.err = NoErr
               THEN /\ Len(dt) < MaxInst
                    /\ Len(r.dt) <= MaxLayers
                    /\ dt' = Append(dt, r.dt)
                    /\ last' = Call("init", 0, NoRef, 0, 0, args, Len(dt) + 1, NoErr)
               ELSE /\ dt' = dt
                    /\ last' = Call("init", 0, NoRef, 0, 0, args, 0, r.err)
            /\ UNCHANGED heap

\* self[key]
GetItem ==
    \E i \in Insts, key \in Keys :
        LET r == getitem(heap, dt[i], key)
        IN  /\ last' = Call("getitem", i, NoRef, key, 0, <<>>, r.val, r.err)
            /\ UNCHANGED <<heap, dt>>

\* self[key] = value
SetItem ==
    \E i \in Insts, key \in Keys, value \in Vals :
        LET r == setitem(heap, dt[i], key, value)
        IN  /\ Len(r.heap) <= MaxDicts
            /\ heap' = r.heap
            /\ dt' = [dt EXCEPT ![i] = r.dt]
            /\ last' = Call("setitem", i, NoRef, key, value, <<>>, r.found, NoErr)

\* del self[key]
DelItem ==
    \E i \in Insts, key \in Keys :
        LET r == delitem(heap, dt[i], key)
        IN  /\ heap' = r.heap
            /\ last' = Call("delitem", i, NoRef, key, 0, <<>>, 0, r.err)
            /\ UNCHANGED dt

\* key in self
Contains ==
    \E i \in Insts, key \in Keys :
        /\ last' = Call("contains", i, NoRef, key, 0, <<>>, contains(heap, dt[i], key), NoErr)
        /\ UNCHANGED <<heap, dt>>

\* self(key)
CallAll ==
    \E i \in Insts, key \in Keys :
        /\ last' = Call("call", i, NoRef, key, 0, <<>>, call(heap, dt[i], key), NoErr)
        /\ UNCHANGED <<heap, dt>>

\* len(self)
LenOf ==
    \E i \in Insts :
        /\ last' = Call("len", i, NoRef, 0, 0, <<>>, len(heap, dt[i]), NoErr)
        /\ UNCHANGED <<heap, dt>>

\* bool(self)
BoolOf ==
    \E i \in Insts :
        /\ last' = Call("bool", i, NoRef, 0, 0, <<>>, bool(dt[i]), NoErr)
        /\ UNCHANGED <<heap, dt>>

\* list(self)
Iter ==
    \E i \in Insts :
        /\ last' = Call("iter", i, NoRef, 0, 0, <<>>, iter(heap, dt[i]), NoErr)
        /\ UNCHANGED <<heap, dt>>

\* self == other
Eq ==
    \E i \in Insts, other \in Operands :
        /\ last' = Call("eq", i, other, 0, 0, <<>>, eq(heap, dt, dt[i], other), NoErr)
        /\ UNCHANGED <<heap, dt>>

\* Variant: the sum extends self.dt in place and gives self back.
ConcatInPlace(op, i, other, r) ==
    /\ IF r.err = NoErr /\ ~r.same
       THEN /\ Len(r.dt) <= MaxLayers
            /\ dt' = [dt EXCEPT ![i] = r.dt]
            /\ last' = Call(op, i, other, 0, 0, <<>>, i, NoErr)
       ELSE /\ dt' = dt
            /\ last' = Call(op, i, other, 0, 0, <<>>, IF r.err = NoErr THEN i ELSE 0, r.err)
    /\ UNCHANGED heap

\* The step of self + other (r: the outcome of __add__ or __radd__): a new
\* instance, self itself, or an exception.
Concat(op, i, other, r) ==
    /\ IF r.err = NoErr /\ ~r.same
       THEN /\ Len(dt) < MaxInst
            /\ Len(r.dt) <= MaxLayers
            /\ dt' = Append(dt, r.dt)
            /\ last' = Call(op, i, other, 0, 0, <<>>, Len(dt) + 1, NoErr)
       ELSE /\ dt' = dt
            /\ last' = Call(op, i, other, 0, 0, <<>>, IF r.err = NoErr THEN i ELSE 0, r.err)
    /\ UNCHANGED heap

\* self + other
Add ==
    \E i \in Insts, other \in Operands :
        Concat("add", i, other, add(heap, dt, dt[i], other))

\* other + self
RAdd ==
    \E i \in Insts, other \in Operands :
        Concat("radd", i, other, radd(heap, dt, dt[i], other))

Next ==
    \/ NewDict
    \/ Construct
    \/ GetItem
    \/ SetItem
    \/ DelItem
    \/ Contains
    \/ CallAll
    \/ LenOf
    \/ BoolOf
    \/ Iter
    \/ Eq
    \/ Add
    \/ RAdd

Spec == Init /\ [][Next]_vars

\* ============================================================ properties
\* The positions of a layer list whose dictionary holds key.
Owners(layers, key) == {j \in 1..Len(layers) : key \in DOMAIN heap[layers[j]]}

Highest(S) == CHOOSE j \in S : \A j2 \in S : j2 <= j

\* C1: in every reachable state, for every instance and key, the shadowed get
\* returns the value stored under the key in the highest-index layer that
\* contains it, and raises KeyError exactly when no layer contains it; a
\* performed get reports exactly that.
C1_GetLatestWins ==
    /\ \A i \in Insts, k \in Keys :
          LET r == getitem(heap, dt[i], k)
              owners == Owners(dt[i], k)
          IN  /\ r.err = (IF owners = {} THEN "KeyError" ELSE NoErr)
              /\ owners # {} => r.val = heap[dt[i][Highest(owners)]][k]
    /\ last.op = "getitem" =>
          LET owners == Owners(dt[last.self], last.key)
          IN  /\ last.err = (IF owners = {} THEN "KeyError" ELSE NoErr)
              /\ owners # {} => last.res = heap[dt[last.self][Highest(owners)]][last.key]

\* A get that returned the value of the later of two layers holding different
\* values for the key.
C1_Witness ==
    /\ last.op = "getitem"
    /\ last.err = NoErr
    /\ Len(dt[last.self]) = 2
    /\ Owners(dt[last.self], last.key) = {1, 2}
    /\ heap[dt[last.self][1]][last.key] # heap[dt[last.self][2]][last.key]
    /\ last.res = heap[dt[last.self][2]][last.key]

\* The step is a set of a key that some layer of the instance holds / holds not.
SetExisting == last'.op = "setitem" /\ contains(heap, dt[last'.self], last'.key)
SetAbsent == last'.op = "setitem" /\ ~contains(heap, dt[last'.self], last'.key)

C3_SetAbsentAppends ==
    [][SetAbsent =>
          LET i == last'.self
              new == dt'[i][Len(dt'[i])]
          IN  /\ Len(dt'[i]) = Len(dt[i]) + 1
              /\ \A p \in 1..Len(dt[i]) : dt'[i][p] = dt[i][p]
              /\ new \notin DOMAIN heap
              /\ DOMAIN heap'[new] = {last'.key}
              /\ heap'[new][last'.key] = last'.val
              /\ \A id \in DOMAIN heap : heap'[id] = heap[id]
              /\ Len(heap') = Len(heap) + 1
              /\ \A o \in Insts \ {i} : dt'[o] = dt[o]
    ]_vars

\* A set has appended a single-entry layer behind a layer that holds another key.
C3_Witness ==
    /\ last.op = "setitem"
    /\ last.res = FALSE
    /\ Len(dt[last.self]) = 2
    /\ DOMAIN heap[dt[last.self][2]] = {last.key}
    /\ heap[dt[last.self][2]][last.key] = last.val
    /\ DOMAIN heap[dt[last.self][1]] = Keys \ {last.key}

\* The step is a delete of a key that some layer of the instance holds / holds not.
DelPresent == last'.op = "delitem" /\ contains(heap, dt[last'.self], last'.key)
DelAbsent == last'.op = "delitem" /\ ~contains(heap, dt[last'.self], last'.key)

C5_AddTuplesConcatenates ==
    (last.op = "add" /\ last.other.kind = "DictTuple") =>
        /\ last.err = NoErr
        /\ last.res = Len(dt)
        /\ last.res \notin {last.self, last.other.ref}
        /\ dt[last.res] = dt[last.self] \o dt[last.other.ref]
        /\ Len(dt[last.res]) = Len(dt[last.self]) + Len(dt[last.other.ref])

\* The resolved view of a layer list: every key some layer holds, with the
\* value of the highest-index layer that holds it.
View(layers) ==
    [k \in {k \in Keys : Owners(layers, k) # {}} |->
        heap[layers[Highest(Owners(layers, k))]][k]]

\* C6: L == m for a dictionary m is true exactly when every key of some layer
\* of L is a key of m and L's shadowed value for it equals m's; keys that only
\* m holds do not matter.
C6_EqDictSubset ==
    /\ \A i \in Insts, m \in DictIds :
          eqDict(heap, dt[i], heap[m]) =
              (\A k \in DOMAIN View(dt[i]) :
                  k \in DOMAIN heap[m] /\ View(dt[i])[k] = heap[m][k])
    /\ (last.op = "eq" /\ last.other.kind = "dict") =>
          last.res = (\A k \in DOMAIN View(dt[last.self]) :
                         /\ k \in DOMAIN heap[last.other.ref]
                         /\ View(dt[last.self])[k] = heap[last.other.ref][k])

\* A comparison with a dictionary that holds a key the instance lacks was true.
C6_Witness ==
    /\ last.op = "eq"
    /\ last.other.kind = "dict"
    /\ last.res = TRUE
    /\ DOMAIN heap[last.other.ref] \ DOMAIN View(dt[last.self]) # {}
    /\ \A p \in 1..Len(dt[last.self]) : dt[last.self][p] # last.other.ref

NonEmptyArgs(args) == {p \in 1..Len(args) : DOMAIN heap[args[p].ref] # {}}

\* C8: a constructor call whose arguments are all dictionaries fails with
\* AssertionError when there is no argument or every argument is empty;
\* otherwise the new instance's layer list is the non-empty arguments, each
\* once, in their order.
C8_InitFilters ==
    (last.op = "init" /\ \A p \in 1..Len(last.args) : last.args[p].kind = "dict") =>
        LET ne == NonEmptyArgs(last.args)
        IN  /\ last.err = (IF ne = {} THEN "AssertionError" ELSE NoErr)
            /\ ne # {} =>
                  /\ last.res = Len(dt)
                  /\ Len(dt[last.res]) = Cardinality(ne)
                  /\ \A p \in ne :
                        dt[last.res][Cardinality({q \in ne : q <= p})] = last.args[p].ref

\* A constructor call with an empty and a non-empty dictionary has made an
\* instance with the one non-empty layer.
C8_Witness ==
    /\ last.op = "init"
    /\ last.err = NoErr
    /\ Len(last.args) = 2
    /\ last.args[1].kind = "dict" /\ last.args[2].kind = "dict"
    /\ DOMAIN heap[last.args[1].ref] = {}
    /\ dt[last.res] = <<last.args[2].ref>>

\* C9: a failing call changes nothing: a delete and a get of a key no layer
\* holds raise KeyError and leave every dictionary and every layer list as it
\* was (a delete that raises has removed nothing), and a set never raises.
C9_FailureLeavesState ==
    [][/\ DelAbsent => last'.err = "KeyError"
       /\ (last'.op = "delitem" /\ last'.err # NoErr) => (heap' = heap /\ dt' = dt)
       /\ last'.op = "getitem" =>
             /\ heap' = heap /\ dt' = dt
             /\ ~contains(heap, dt[last'.self], last'.key) => last'.err = "KeyError"
       /\ last'.op = "setitem" => last'.err = NoErr
    ]_vars

\* A delete of a key no layer holds has raised KeyError on an instance of two
\* layers that hold the other key.
C9_Witness ==
    /\ last.op = "delitem"
    /\ last.err = "KeyError"
    /\ Len(dt[last.self]) = 2
    /\ \A p \in {1, 2} : DOMAIN heap[dt[last.self][p]] = Keys \ {last.key}

\* The step is self + m or m + self for a dictionary m.
ConcatDict == last'.op \in {"add", "radd"} /\ last'.other.kind = "dict"

\* C10 as stated: L + m and m + L for a dictionary m: when m is empty the
\* result is L itself, unchanged; otherwise a new instance whose layer list is
\* L's layers followed by m (L + m), or m followed by L's layers (m + L).
C10_AddDictAppends ==
    [][ConcatDict =>
          LET i == last'.self
              m == last'.other.ref
          IN  /\ last'.err = NoErr
              /\ heap' = heap
              /\ \A o \in Insts : dt'[o] = dt[o]
              /\ IF DOMAIN heap[m] = {}
                 THEN last'.res = i /\ dt' = dt
                 ELSE /\ last'.res = Len(dt) + 1
                      /\ Len(dt') = Len(dt) + 1
                      /\ dt'[last'.res] = (IF last'.op = "add"
                                           THEN Append(dt[i], m)
                                           ELSE <<m>> \o dt[i])
    ]_vars

\* C11: in every reachable state the key enumeration of every instance yields
\* exactly the keys held by at least one layer, each once, in ascending order,
\* and the key count is the number of keys enumerated: the size of the union
\* of the layers' key sets, not the sum of the layers' sizes.
C11_IterSortedDistinct ==
    /\ \A i \in Insts :
          LET ks == iter(heap, dt[i])
              held == {k \in Keys : Owners(dt[i], k) # {}}
          IN  /\ {ks[p] : p \in 1..Len(ks)} = held
              /\ \A p \in 1..Len(ks), q \in 1..Len(ks) : p < q => ks[p] < ks[q]
              /\ len(heap, dt[i]) = Len(ks)
              /\ len(heap, dt[i]) = Cardinality(held)
    /\ last.op = "iter" => last.res = iter(heap, dt[last.self])
    /\ last.op = "len" => last.res = Len(iter(heap, dt[last.self]))

\* The keys of an instance whose later layer holds the smaller key were
\* enumerated ascending, and a key held by both layers came once.
C11_Witness ==
    /\ last.op = "iter"
    /\ last.res = <<1, 2>>
    /\ Len(dt[last.self]) = 2
    /\ DOMAIN heap[dt[last.self][1]] = {2}
    /\ DOMAIN heap[dt[last.self][2]] = {1, 2}

\* C12: in every reachable state the truth value of an instance is true
\* exactly when it has more than one layer, whatever the layers hold.
C12_BoolIsLayerCount ==
    /\ \A i \in Insts : bool(dt[i]) = (Len(dt[i]) >= 2)
    /\ \A i \in Insts : Len(dt[i]) = 1 => ~bool(dt[i])
    /\ last.op = "bool" => last.res = (Len(dt[last.self]) >= 2)

\* bool() was true for an instance of two layers that delete has both emptied.
C12_Witness ==
    /\ last.op = "bool"
    /\ last.res = TRUE
    /\ Len(dt[last.self]) = 2
    /\ \A p \in {1, 2} : DOMAIN heap[dt[last.self][p]] = {}

\* The positions of a layer list whose dictionary, in heap h, holds key.
OwnersIn(h, layers, key) == {j \in 1..Len(layers) : key \in DOMAIN h[layers[j]]}

\* C13: get-all of a key gives the values stored under it in the layers that
\* hold it, one per owning layer, oldest to latest; it gives the empty
\* sequence, and raises nothing, when no layer holds the key; and the call
\* changes no layer.
C13_CallAllInLayerOrder ==
    /\ [](\A i \in 1..Len(dt), k \in Keys :
             LET owners == OwnersIn(heap, dt[i], k)
                 r == call(heap, dt[i], k)
             IN  /\ Len(r) = Cardinality(owners)
                 /\ \A p \in owners :
                       r[Cardinality({q \in owners : q <= p})] = heap[dt[i][p]][k])
    /\ [][last'.op = "call" =>
             /\ heap' = heap /\ dt' = dt
             /\ last'.err = NoErr
             /\ last'.res = call(heap, dt[last'.self], last'.key)
             /\ (OwnersIn(heap, dt[last'.self], last'.key) = {}) = (last'.res = <<>>)
       ]_vars

\* Get-all gave the two different values of a key, the older layer's first.
C13_Witness ==
    /\ last.op = "call"
    /\ Len(dt[last.self]) = 2
    /\ Owners(dt[last.self], last.key) = {1, 2}
    /\ last.res = <<heap[dt[last.self][1]][last.key], heap[dt[last.self][2]][last.key]>>
    /\ last.res[1] # last.res[2]

\* The step is self + other or other + self.
ConcatStep == last'.op \in {"add", "radd"}

\* The operand of the step makes a new instance when the sum succeeds: a
\* DictTuple or a non-empty dictionary.
ConcatMakesNew ==
    \/ last'.other.kind = "DictTuple"
    \/ last'.other.kind = "dict" /\ DOMAIN heap[last'.other.ref] # {}

\* C14: a concatenation makes a new instance with a layer list of its own:
\* the step leaves the layer list of every instance there was (the operands
\* included) as it was, its result is an instance that was not there before,
\* and a later set that appends a layer to one instance changes the layer
\* count of that instance only.
C14_ConcatFreshList ==
    [][/\ ConcatStep =>
             /\ \A o \in Insts : dt'[o] = dt[o]
             /\ heap' = heap
             /\ (last'.err = NoErr /\ ConcatMakesNew) =>
                   /\ last'.res \notin Insts
                   /\ last'.res = Len(dt')
                   /\ Len(dt') = Len(dt) + 1
       /\ SetAbsent =>
             /\ Len(dt') = Len(dt)
             /\ Len(dt'[last'.self]) = Len(dt[last'.self]) + 1
             /\ \A o \in Insts \ {last'.self} : Len(dt'[o]) = Len(dt[o])
    ]_vars

\* Instance 2 has the layers of A + A for the one-layer instance A = 1, and a
\* set of a new key has appended a third layer to it; A still has one layer.
C14_Witness ==
    /\ last.op = "setitem"
    /\ last.res = FALSE
    /\ last.self = 2
    /\ Len(dt[1]) = 1
    /\ Len(dt[2]) = 3
    /\ dt[2][1] = dt[1][1] /\ dt[2][2] = dt[1][1]
    /\ dt[2][3] # dt[1][1]

\* C15 as stated: a set of a key no layer holds changes the truth value of the
\* instance, whatever instance it is.
C15_SetAbsentFlipsBool ==
    [][SetAbsent => bool(dt'[last'.self]) # bool(dt[last'.self])]_vars

\* C15 (amended): a set of a key no layer holds leaves the instance true; the
\* truth value changes (false to true) exactly when the instance had one
\* layer, and stays true when it had two or more.
C15_SetAbsentFlipsFromOneLayer ==
    [][SetAbsent =>
          /\ bool(dt'[last'.self])
          /\ (bool(dt'[last'.self]) # bool(dt[last'.self])) = (Len(dt[last'.self]) = 1)
          /\ Len(dt[last'.self]) >= 2 => bool(dt[last'.self])
    ]_vars

\* A set of a new key has given a one-layer instance its second layer: it was
\* false and is true.
C15_Witness ==
    /\ last.op = "setitem"
    /\ last.res = FALSE
    /\ Len(dt[last.self]) = 2
    /\ bool(dt[last.self])
    /\ ~bool(SubSeq(dt[last.self], 1, 1))

\* C16 as stated: a constructor call with an argument that is not a
\* dictionary, truthy or falsy, raises AssertionError and makes no instance;
\* every element of every layer list is a dictionary.
C16_NonMappingRejected ==
    /\ (last.op = "init" /\ \E p \in 1..Len(last.args) : last.args[p].kind # "dict") =>
          (last.err = "AssertionError" /\ last.res = 0)
    /\ \A i \in Insts : \A p \in 1..Len(dt[i]) : dt[i][p] \in DictIds

OtherView ==
    IF last.other.kind = "DictTuple" THEN View(dt[last.other.ref]) ELSE heap[last.other.ref]

Objects(layers) == {layers[p] : p \in 1..Len(layers)}

\* C19: dictionaries are shared by reference between the instances that hold
\* them.  A set of an existing key through one instance shows in every
\* instance holding the written dictionary (its get gives the new value where
\* that dictionary is its latest owner of the key); a delete through one
\* instance removes the key from the shared dictionaries of every instance
\* (an instance all of whose owners were shared no longer contains the key,
\* its get raises KeyError and its key count is one less).  The layer lists
\* of all instances stay as they were.
C19_SharedLayersObserved ==
    [][/\ SetExisting =>
             LET i == last'.self
                 key == last'.key
                 d == dt[i][Highest(OwnersIn(heap, dt[i], key))]
             IN  \A o \in Insts :
                    /\ dt'[o] = dt[o]
                    /\ \A p \in 1..Len(dt[o]) :
                          dt[o][p] = d => heap'[dt'[o][p]][key] = last'.val
                    /\ (/\ OwnersIn(heap, dt[o], key) # {}
                        /\ dt[o][Highest(OwnersIn(heap, dt[o], key))] = d) =>
                          getitem(heap', dt'[o], key) = [err |-> NoErr, val |-> last'.val]
       /\ DelPresent =>
             LET i == last'.self
                 key == last'.key
             IN  \A o \in Insts :
                    /\ dt'[o] = dt[o]
                    /\ \A p \in 1..Len(dt[o]) :
                          dt[o][p] \in Objects(dt[i]) => key \notin DOMAIN heap'[dt'[o][p]]
                    /\ (/\ OwnersIn(heap, dt[o], key) # {}
                        /\ \A p \in OwnersIn(heap, dt[o], key) : dt[o][p] \in Objects(dt[i])) =>
                          /\ ~contains(heap', dt'[o], key)
                          /\ getitem(heap', dt'[o], key).err = "KeyError"
                          /\ len(heap', dt'[o]) = len(heap, dt[o]) - 1
    ]_vars

\* A set through one instance has written a dictionary that another instance,
\* with another layer list, resolves the key from: it gets the value set.
C19_Witness ==
    /\ last.op = "setitem"
    /\ last.res = TRUE
    /\ \E o \in Insts \ {last.self} :
          /\ dt[o] # dt[last.self]
          /\ Owners(dt[o], last.key) # {}
          /\ dt[o][Highest(Owners(dt[o], last.key))]
                = dt[last.self][Highest(Owners(dt[last.self], last.key))]
          /\ getitem(heap, dt[o], last.key).val = last.val

\* C20: in every reachable state, for every instance and key, the lookups
\* agree: the key is contained iff the shadowed get succeeds iff get-all is
\* non-empty iff the enumeration yields it; and then the shadowed get gives
\* the last element of get-all.
C20_LookupsAgree ==
    \A i \in Insts, k \in Keys :
        LET c == contains(heap, dt[i], k)
            g == getitem(heap, dt[i], k)
            a == call(heap, dt[i], k)
            ks == iter(heap, dt[i])
        IN  /\ c = (g.err = NoErr)
            /\ c = (a # <<>>)
            /\ c = (\E p \in 1..Len(ks) : ks[p] = k)
            /\ c => g.val = a[Len(a)]

\* A key held by the older layer only was found contained; get-all has its
\* one value, which the shadowed get gives.
C20_Witness ==
    /\ last.op = "contains"
    /\ last.res = TRUE
    /\ Len(dt[last.self]) = 2
    /\ Owners(dt[last.self], last.key) = {1}
    /\ DOMAIN heap[dt[last.self][2]] # {}
    /\ call(heap, dt[last.self], last.key)
          = <<getitem(heap, dt[last.self], last.key).val>>

====
